---- MODULE Spec2Model ----
(***************************************************************************)
(* Model of the relief generator of maptoposter (src/stl_generator.py and  *)
(* src/road_categories.py).                                                *)
(*                                                                         *)
(* Units.  Relief heights (road_heights, water_height, park_height) are    *)
(* held in hundredths, widths and road_width_scale in tenths, millimetre   *)
(* settings in tenths of a millimetre.  World coordinates are integers and *)
(* the bounding box has power-of-two extents, so that the divisions of     *)
(* world_to_grid are exact in binary floating point and the truncations    *)
(* below are the ones numpy performs.  The rounding of the grid's float32   *)
(* storage is not modelled: a cell holds the height written to it.         *)
(***************************************************************************)
EXTENDS Integers, Sequences, FiniteSets, TLC

VARIABLES
    pc,          \* position inside generate_stl / heightmap_to_mesh
    settings,    \* the STLSettings object of the run
    graph,       \* road network: sequence of edges (highway tag, world coords)
    water,       \* water GeoDataFrame (or None)
    parks,       \* park GeoDataFrame (or None)
    road_grid,   \* the running heightmap of generate_stl
    heightmap,   \* argument of heightmap_to_mesh
    vertices,    \* heightmap_to_mesh: top vertex list, row-major
    faces,       \* heightmap_to_mesh: top faces (triples of vertex indices)
    base_faces,  \* heightmap_to_mesh: base faces
    side_faces,  \* heightmap_to_mesh: faces of the wall quads, as 3-D points
    final_mesh,  \* heightmap_to_mesh: faces of the merged mesh, as 3-D points
    grid_unit,   \* the integer that stands for 1.0 in road_grid and heightmap
    output_file, \* what exists at the output path
    diagnostics, \* the figures logged after the export
    result,      \* how the call of generate_stl ended
    grid_shape,  \* value returned by _grid_dimensions
    points,      \* argument of world_to_grid: world points
    pixels,      \* value returned by world_to_grid: <<row, col>> per point
    line,        \* arguments of a call of draw_thick_line
    cursor,      \* draw_thick_line: the loop's x0, y0 and err
    stepped,     \* draw_thick_line: the pixels <<x, y>> the loop has painted around
    tag_value,   \* argument of classify: a highway value
    category     \* value returned by classify

\* state of the later stages of generate_stl
runVars == <<grid_unit, output_file, diagnostics, result>>

\* state of the calls of the grid geometry functions
gridVars == <<grid_shape, points, pixels>>

\* state of the calls of draw_thick_line and classify
callVars == <<line, cursor, stepped, tag_value, category>>

vars == <<pc, settings, graph, water, parks, road_grid, heightmap,
          vertices, faces, base_faces, side_faces, final_mesh, runVars, gridVars,
          callVars>>

----------------------------------------------------------------------------
(* Bounds of the model *)

\* resolution setting used by the compositor runs
GridResolution == 6
\* largest number of edges of the road graph
MaxRoads == 2
\* largest number of rows / columns of a heightmap handed to the mesh builder
MaxMeshDim == 3

----------------------------------------------------------------------------
(* Arithmetic helpers *)

Max(a, b) == IF a >= b THEN a ELSE b

Abs(a) == IF a >= 0 THEN a ELSE -a

\* int(n / d) and ndarray.astype(int): truncation toward zero (d > 0)
IntTrunc(n, d) == IF n >= 0 THEN n \div d ELSE -((-n) \div d)

\* np.clip: minimum(maximum(v, lo), hi), also when lo > hi
Clip(v, lo, hi) ==
    LET raised == IF v < lo THEN lo ELSE v
    IN  IF raised > hi THEN hi ELSE raised

RECURSIVE SeqSum(_)
SeqSum(s) == IF s = <<>> THEN 0 ELSE Head(s) + SeqSum(Tail(s))

----------------------------------------------------------------------------
(* road_categories.py *)

\* _HIGHWAY_CATEGORIES.get(tag, "default")
HighwayCategory(tag) ==
    CASE tag \in {"motorway", "motorway_link"} -> "motorway"
      [] tag \in {"trunk", "trunk_link", "primary", "primary_link"} -> "primary"
      [] tag \in {"secondary", "secondary_link"} -> "secondary"
      [] tag \in {"tertiary", "tertiary_link"} -> "tertiary"
      [] tag \in {"residential", "living_street", "unclassified"} -> "residential"
      [] OTHER -> "default"

\* mutation of classify: a list is classified by its last element
classifyByLast(highway_type) ==
    LET tag == IF highway_type.list
               THEN (IF highway_type.vals # <<>>
                     THEN highway_type.vals[Len(highway_type.vals)]
                     ELSE "unclassified")
               ELSE highway_type.vals[1]
    IN  HighwayCategory(tag)

\* A highway value is [list |-> BOOLEAN, vals |-> sequence of tags]:
\* a plain string s is [list |-> FALSE, vals |-> <<s>>].
classify(highway_type) ==
    LET tag == IF highway_type.list
               THEN (IF highway_type.vals # <<>> THEN highway_type.vals[1]
                     ELSE "unclassified")
               ELSE highway_type.vals[1]
    IN  HighwayCategory(tag)

\* STL_BASE_WIDTHS, in tenths of a pixel
STL_BASE_WIDTHS ==
    [motorway |-> 40, primary |-> 35, secondary |-> 30, tertiary |-> 25,
     residential |-> 20, default |-> 20]

\* get_stl_width followed by the caller's int(line_width); scale in tenths
StlLineWidth(highway_type, road_width_scale) ==
    IntTrunc(STL_BASE_WIDTHS[classify(highway_type)] * road_width_scale, 100)

\* road_heights.get(category, road_heights.get("default", 0.4))
get_stl_height(highway_type, road_heights) ==
    road_heights[classify(highway_type)]

----------------------------------------------------------------------------
(* STLSettings *)

DefaultRoadHeights ==
    [motorway |-> 100, primary |-> 85, secondary |-> 70, tertiary |-> 55,
     residential |-> 40, default |-> 40]

\* a second, user-edited height table (still ordered by road class)
SteepRoadHeights ==
    [motorway |-> 90, primary |-> 60, secondary |-> 50, tertiary |-> 30,
     residential |-> 20, default |-> 10]

DefaultSettings ==
    [width_mm |-> 1500, height_mm |-> 2000, base_thickness |-> 30,
     max_relief_height |-> 25, invert |-> FALSE,
     road_heights |-> DefaultRoadHeights,
     water_height |-> -20, park_height |-> 15,
     resolution |-> 800, smoothing |-> 10, road_width_scale |-> 15]

----------------------------------------------------------------------------
(* GridGeometry *)

\* _grid_dimensions: <<grid_height, grid_width>>
GridDimensions(s) ==
    IF s.width_mm >= s.height_mm
    THEN <<IntTrunc(s.resolution * s.height_mm, s.width_mm), s.resolution>>
    ELSE <<s.resolution, IntTrunc(s.resolution * s.width_mm, s.height_mm)>>

\* the bounding box handed to generate_stl: (minx, miny, maxx, maxy)
Bounds == [minx |-> 0, miny |-> 0, maxx |-> 4, maxy |-> 8]

\* mutation of WorldToGrid: the two np.clip calls are left out
WorldToGridUnclipped(pt, b, shape) ==
    LET width  == b.maxx - b.minx
        height == b.maxy - b.miny
    IN  <<IntTrunc((height - (pt[2] - b.miny)) * (shape[1] - 1), height),
          IntTrunc((pt[1] - b.minx) * (shape[2] - 1), width)>>

\* mutation of WorldToGrid: the row is taken from norm_y, not from 1 - norm_y
WorldToGridNotFlipped(pt, b, shape) ==
    LET width  == b.maxx - b.minx
        height == b.maxy - b.miny
        col == IntTrunc((pt[1] - b.minx) * (shape[2] - 1), width)
        row == IntTrunc((pt[2] - b.miny) * (shape[1] - 1), height)
    IN  <<Clip(row, 0, shape[1] - 1), Clip(col, 0, shape[2] - 1)>>

\* world_to_grid for one point <<x, y>>: <<row, col>>
WorldToGrid(pt, b, shape) ==
    LET width  == b.maxx - b.minx
        height == b.maxy - b.miny
        col == IntTrunc((pt[1] - b.minx) * (shape[2] - 1), width)
        row == IntTrunc((height - (pt[2] - b.miny)) * (shape[1] - 1), height)
    IN  <<Clip(row, 0, shape[1] - 1), Clip(col, 0, shape[2] - 1)>>

\* world_to_grid for a coordinate array: the sequence of <<row, col>>
world_to_grid(coords, b, shape) ==
    [i \in 1..Len(coords) |-> WorldToGrid(coords[i], b, shape)]

Cells(shape) == (0..(shape[1] - 1)) \X (0..(shape[2] - 1))

\* np.zeros(shape)
ZeroGrid(shape) == [cell \in Cells(shape) |-> 0]

----------------------------------------------------------------------------
(* LineRasterizer *)

\* The pixels <<x, y>> visited by the while loop of draw_thick_line, in order.
RECURSIVE BresenhamFrom(_, _, _, _, _, _, _, _, _)
BresenhamFrom(x0, y0, x1, y1, err, dx, dy, sx, sy) ==
    IF x0 = x1 /\ y0 = y1
    THEN <<(<<x0, y0>>)>>
    ELSE LET e2   == 2 * err
             stepX == e2 > -dy
             stepY == e2 < dx
             err1 == IF stepX THEN err - dy ELSE err
             nx   == IF stepX THEN x0 + sx ELSE x0
             err2 == IF stepY THEN err1 + dx ELSE err1
             ny   == IF stepY THEN y0 + sy ELSE y0
         IN  <<(<<x0, y0>>)>> \o BresenhamFrom(nx, ny, x1, y1, err2, dx, dy, sx, sy)

BresenhamSteps(x0, y0, x1, y1) ==
    LET dx == Abs(x1 - x0)
        dy == Abs(y1 - y0)
        sx == IF x0 < x1 THEN 1 ELSE -1
        sy == IF y0 < y1 THEN 1 ELSE -1
    IN  BresenhamFrom(x0, y0, x1, y1, dx - dy, dx, dy, sx, sy)

\* The in-grid cells <<row, col>> the two for-loops of draw_thick_line paint.
LineCells(shape, x0, y0, x1, y1, thickness) ==
    LET half_thick == thickness \div 2
        steps == BresenhamSteps(x0, y0, x1, y1)
    IN  {cell \in Cells(shape) :
            \E k \in 1..Len(steps) :
                /\ Abs(cell[1] - steps[k][2]) <= half_thick
                /\ Abs(cell[2] - steps[k][1]) <= half_thick}

\* mutation of PaintCell: the cell is overwritten instead of max-composited
PaintCellOverwrite(old, value) == value

\* mutation of PaintCell: only a cell still at zero is written
PaintCellIfEmpty(old, value) == IF old = 0 THEN value ELSE old

\* grid[y_pos, x_pos] = max(grid[y_pos, x_pos], value)
PaintCell(old, value) == Max(old, value)

\* draw_thick_line: the grid after the call
draw_thick_line(grid, shape, x0, y0, x1, y1, value, thickness) ==
    LET painted == LineCells(shape, x0, y0, x1, y1, thickness)
    IN  [cell \in DOMAIN grid |->
            IF cell \in painted THEN PaintCell(grid[cell], value) ELSE grid[cell]]

\* for i in range(len(rows) - 1): draw_thick_line(cols[i], rows[i], cols[i+1], rows[i+1])
RECURSIVE DrawPolyline(_, _, _, _, _, _)
DrawPolyline(grid, shape, px, i, value, thickness) ==
    IF i >= Len(px)
    THEN grid
    ELSE DrawPolyline(
             draw_thick_line(grid, shape, px[i][2], px[i][1],
                             px[i + 1][2], px[i + 1][1], value, thickness),
             shape, px, i + 1, value, thickness)

\* The cells a polyline of pixel points touches.
PolylineCells(shape, px, thickness) ==
    UNION {LineCells(shape, px[i][2], px[i][1], px[i + 1][2], px[i + 1][1], thickness) :
              i \in 1..(Len(px) - 1)}

----------------------------------------------------------------------------
(* rasterize_roads *)

\* data.get('highway', 'unclassified')
EdgeHighway(data) ==
    IF data.has_highway THEN data.highway
    ELSE [list |-> FALSE, vals |-> <<"unclassified">>]

\* One iteration of the loop over graph.edges(data=True).
RasterizeEdge(grid, shape, data, b, s) ==
    LET highway      == EdgeHighway(data)
        height_value == get_stl_height(highway, s.road_heights)
        line_width   == StlLineWidth(highway, s.road_width_scale)
        px           == world_to_grid(data.coords, b, shape)
    IN  DrawPolyline(grid, shape, px, 1, height_value, line_width)

RECURSIVE RasterizeEdges(_, _, _, _, _, _)
RasterizeEdges(grid, shape, g, i, b, s) ==
    IF i > Len(g) THEN grid
    ELSE RasterizeEdges(RasterizeEdge(grid, shape, g[i], b, s), shape, g, i + 1, b, s)

rasterize_roads(g, b, s) ==
    LET shape == GridDimensions(s)
    IN  RasterizeEdges(ZeroGrid(shape), shape, g, 1, b, s)

----------------------------------------------------------------------------
(* rasterize_polygons *)

\* A GeoDataFrame is [present |-> BOOLEAN, rows |-> sequence of features];
\* present = FALSE is None.  A feature is [geom_type, polys], polys being the
\* exterior rings of its polygons (one for a Polygon).
GdfEmpty(gdf) == (~gdf.present) \/ gdf.rows = <<>>

\* gdf[gdf.geometry.type.isin(['Polygon', 'MultiPolygon'])]
PolyRows(gdf) == SelectSeq(gdf.rows, LAMBDA f : f.geom_type \in {"Polygon", "MultiPolygon"})

\* int(np.mean(rows)), int(np.mean(cols)) of the ring's pixel coordinates
RingCentre(px) ==
    <<IntTrunc(SeqSum([i \in 1..Len(px) |-> px[i][1]]), Len(px)),
      IntTrunc(SeqSum([i \in 1..Len(px) |-> px[i][2]]), Len(px))>>

\* mutation of StampCentre: the centre is max-composited like the outline
StampCentreMax(grid, shape, px, height_value) ==
    LET centre == RingCentre(px)
    IN  IF Len(px) >= 3 /\ centre \in Cells(shape)
        THEN [grid EXCEPT ![centre] = Max(grid[centre], height_value)]
        ELSE grid

\* grid[center_row, center_col] = height_value
StampCentre(grid, shape, px, height_value) ==
    LET centre == RingCentre(px)
    IN  IF Len(px) >= 3 /\ centre \in Cells(shape)
        THEN [grid EXCEPT ![centre] = height_value]
        ELSE grid

\* The body of "for poly in polygons" for one exterior ring.
RasterizeRing(grid, shape, coords, b, height_value) ==
    IF Len(coords) < 3 THEN grid
    ELSE LET px == world_to_grid(coords, b, shape)
         IN  StampCentre(DrawPolyline(grid, shape, px, 1, height_value, 2),
                         shape, px, height_value)

RECURSIVE RasterizeRings(_, _, _, _, _, _)
RasterizeRings(grid, shape, rings, i, b, height_value) ==
    IF i > Len(rings) THEN grid
    ELSE RasterizeRings(RasterizeRing(grid, shape, rings[i], b, height_value),
                        shape, rings, i + 1, b, height_value)

RECURSIVE RasterizeRows(_, _, _, _, _, _)
RasterizeRows(grid, shape, rows, i, b, height_value) ==
    IF i > Len(rows) THEN grid
    ELSE RasterizeRows(RasterizeRings(grid, shape, rows[i].polys, 1, b, height_value),
                       shape, rows, i + 1, b, height_value)

rasterize_polygons(gdf, b, s, height_value) ==
    LET shape == GridDimensions(s)
    IN  IF GdfEmpty(gdf) THEN ZeroGrid(shape)
        ELSE RasterizeRows(ZeroGrid(shape), shape, PolyRows(gdf), 1, b, height_value)

----------------------------------------------------------------------------
(* HeightmapCompositor: the merges of generate_stl *)

\* mutation of MergeWater: water replaces whatever the cell held
MergeWaterOverwrite(grid, water_grid) ==
    [cell \in DOMAIN grid |->
        IF water_grid[cell] # 0 THEN water_grid[cell] ELSE grid[cell]]

\* np.maximum(road_grid, water_grid)
MergeWater(grid, water_grid) ==
    [cell \in DOMAIN grid |-> Max(grid[cell], water_grid[cell])]

\* mutation of MergeParks: the park grid is assigned under the mask
MergeParksAssign(grid, park_grid) ==
    [cell \in DOMAIN grid |->
        IF grid[cell] = 0 THEN park_grid[cell] ELSE grid[cell]]

\* mask = road_grid == 0; road_grid[mask] = np.maximum(road_grid[mask], park_grid[mask])
MergeParks(grid, park_grid) ==
    [cell \in DOMAIN grid |->
        IF grid[cell] = 0 THEN Max(grid[cell], park_grid[cell]) ELSE grid[cell]]

----------------------------------------------------------------------------
(* Inputs of a generate_stl run *)

PlainTag(t) == [list |-> FALSE, vals |-> <<t>>]

ListTag(ts) == [list |-> TRUE, vals |-> ts]

\* world geometries of the edges (the second starts outside the box)
DiagonalCoords == << <<0, 0>>, <<4, 8>> >>

EastCoords == << <<6, 4>>, <<4, 0>> >>

\* a polyline of two segments crossing the diagonal
VeeCoords == << <<0, 8>>, <<2, 3>>, <<4, 8>> >>

\* the edges a graph is drawn from: a motorway, an edge without a highway tag
\* (read as 'unclassified'), a tag outside the table, and a list-valued tag
EdgeChoices ==
    {[has_highway |-> TRUE, highway |-> PlainTag("motorway"), coords |-> DiagonalCoords],
     [has_highway |-> FALSE, highway |-> PlainTag(""), coords |-> EastCoords],
     [has_highway |-> TRUE, highway |-> PlainTag("track"), coords |-> DiagonalCoords],
     [has_highway |-> TRUE, highway |-> ListTag(<<"primary_link", "secondary">>),
      coords |-> EastCoords]}

GraphChoices ==
    UNION {[1..n -> EdgeChoices] : n \in 0..MaxRoads}

\* closed exterior rings in world coordinates
PondRing  == << <<0, 0>>, <<1, 0>>, <<0, 1>>, <<0, 0>> >>

FieldRing == << <<1, 0>>, <<3, 0>>, <<3, 1>>, <<1, 0>> >>

NoneGdf == [present |-> FALSE, rows |-> <<>>]

GdfOf(rows) == [present |-> TRUE, rows |-> rows]

GdfChoices ==
    {NoneGdf,
     GdfOf(<< [geom_type |-> "LineString", polys |-> <<>>] >>),
     GdfOf(<< [geom_type |-> "Polygon", polys |-> <<PondRing>>] >>),
     GdfOf(<< [geom_type |-> "MultiPolygon", polys |-> <<PondRing, FieldRing>>] >>)}

\* two road presets: the defaults, and an edited table with thin lines
RoadPresets ==
    {[road_heights |-> DefaultRoadHeights, road_width_scale |-> 15],
     [road_heights |-> SteepRoadHeights, road_width_scale |-> 5]}

SettingsChoices ==
    {[DefaultSettings EXCEPT !.resolution = GridResolution,
                             !.road_heights = r.road_heights,
                             !.road_width_scale = r.road_width_scale,
                             !.water_height = w,
                             !.park_height = p] :
        r \in RoadPresets, w \in {-20, 60}, p \in {15, -10}}

NoMesh == <<>>

\* the later stages have not run: heights are in hundredths, nothing is
\* written, nothing is logged, the call has not ended
RunIdle ==
    /\ grid_unit = 100
    /\ output_file = "absent"
    /\ diagnostics = NoMesh
    /\ result = "running"

\* no call of the grid geometry functions is in progress
GridIdle ==
    /\ grid_shape = NoMesh
    /\ points = <<>>
    /\ pixels = <<>>

\* no call of draw_thick_line or classify is in progress
CallIdle ==
    /\ line = NoMesh
    /\ cursor = NoMesh
    /\ stepped = <<>>
    /\ tag_value = NoMesh
    /\ category = ""

----------------------------------------------------------------------------
(* generate_stl: the rasterization passes *)

Init ==
    /\ pc = "start"
    /\ settings \in SettingsChoices
    /\ graph \in GraphChoices
    /\ water \in GdfChoices
    /\ parks \in GdfChoices
    /\ road_grid = ZeroGrid(GridDimensions(settings))
    /\ heightmap = NoMesh
    /\ vertices = NoMesh
    /\ faces = NoMesh
    /\ base_faces = NoMesh
    /\ side_faces = NoMesh
    /\ final_mesh = NoMesh
    /\ RunIdle
    /\ GridIdle
    /\ CallIdle

\* [1/5] road_grid = rasterize_roads(graph, bounds, settings)
RoadsPass ==
    /\ pc = "start"
    /\ road_grid' = rasterize_roads(graph, Bounds, settings)
    /\ pc' = "roads"
    /\ UNCHANGED <<settings, graph, water, parks, heightmap,
                   vertices, faces, base_faces, side_faces, final_mesh,
                   runVars, gridVars, callVars>>

\* [2/5] water pass and merge, skipped for None or an empty frame
WaterPass ==
    /\ pc = "roads"
    /\ road_grid' =
          IF ~GdfEmpty(water)
          THEN MergeWater(road_grid,
                          rasterize_polygons(water, Bounds, settings, settings.water_height))
          ELSE road_grid
    /\ pc' = "water"
    /\ UNCHANGED <<settings, graph, water, parks, heightmap,
                   vertices, faces, base_faces, side_faces, final_mesh,
                   runVars, gridVars, callVars>>

\* [3/5] parks pass and masked merge, skipped for None or an empty frame
ParksPass ==
    /\ pc = "water"
    /\ road_grid' =
          IF ~GdfEmpty(parks)
          THEN MergeParks(road_grid,
                          rasterize_polygons(parks, Bounds, settings, settings.park_height))
          ELSE road_grid
    /\ pc' = "parks"
    /\ UNCHANGED <<settings, graph, water, parks, heightmap,
                   vertices, faces, base_faces, side_faces, final_mesh,
                   runVars, gridVars, callVars>>

Next == RoadsPass \/ WaterPass \/ ParksPass

Spec == Init /\ [][Next]_vars

----------------------------------------------------------------------------
(* Which features touch a cell: the cells each input paints *)

Shape == GridDimensions(settings)

\* cells painted by the draw_thick_line calls of one road edge
RoadCells(data) ==
    PolylineCells(Shape, world_to_grid(data.coords, Bounds, Shape),
                  StlLineWidth(EdgeHighway(data), settings.road_width_scale))

RoadHeight(data) == get_stl_height(EdgeHighway(data), settings.road_heights)

RECURSIVE SetMax(_)
SetMax(S) ==
    LET x == CHOOSE y \in S : TRUE
    IN  IF S = {x} THEN x ELSE Max(x, SetMax(S \ {x}))

\* the exterior rings rasterize_polygons draws for a frame (>= 3 points)
GdfRings(gdf) ==
    IF GdfEmpty(gdf) THEN {}
    ELSE LET rows == PolyRows(gdf)
             all  == UNION {{rows[i].polys[j] : j \in 1..Len(rows[i].polys)} :
                               i \in 1..Len(rows)}
         IN  {ring \in all : Len(ring) >= 3}

\* cells painted by the outline of a ring (thickness 2)
OutlineCells(ring) == PolylineCells(Shape, world_to_grid(ring, Bounds, Shape), 2)

\* the centroid cell a ring stamps, if it lies in the grid
CentreCells(ring) == {RingCentre(world_to_grid(ring, Bounds, Shape))} \cap Cells(Shape)

GdfOutlineCells(gdf) == UNION {OutlineCells(ring) : ring \in GdfRings(gdf)}

GdfCells(gdf) == UNION {OutlineCells(ring) \cup CentreCells(ring) : ring \in GdfRings(gdf)}

\* What touches what: the pairs <<i, cell>> of a road (index into graph) and a
\* cell it paints, and the cells the water and the park frames paint.
Touched ==
    [roads        |-> UNION {{<<i, cell>> : cell \in RoadCells(graph[i])} :
                                i \in 1..Len(graph)},
     waterOutline |-> GdfOutlineCells(water),
     water        |-> GdfCells(water),
     park         |-> GdfCells(parks)]

\* the roads of the table t touching a cell
RoadsAt(t, cell) == {i \in 1..Len(graph) : <<i, cell>> \in t.roads}

\* the largest configured height among the given roads
TopRoadHeight(roads) == SetMax({RoadHeight(graph[i]) : i \in roads})

\* priority of a road category: motorway > primary > secondary > tertiary >
\* residential / default
Priority(cat) ==
    CASE cat = "motorway" -> 5
      [] cat = "primary" -> 4
      [] cat = "secondary" -> 3
      [] cat = "tertiary" -> 2
      [] OTHER -> 1

RoadCategory(data) == classify(EdgeHighway(data))

----------------------------------------------------------------------------
(* Claims about the compositor *)

\* C1: a cell touched by a park and by a road or a water feature keeps, through
\* the parks pass, exactly the value it had before it.
C1_ParkNeverOverwrites ==
    [][(pc = "water" /\ pc' = "parks") =>
          LET t == Touched
          IN  \A cell \in Cells(Shape) :
                  (cell \in t.park /\ (RoadsAt(t, cell) # {} \/ cell \in t.water))
                      => road_grid'[cell] = road_grid[cell]]_vars

\* C2: after the water pass a cell no road touched that lies on a water outline
\* holds the configured water height.
C2_WaterCellHoldsWaterHeight ==
    pc = "water" =>
        LET t == Touched
        IN  \A cell \in Cells(Shape) :
                (cell \in t.waterOutline /\ RoadsAt(t, cell) = {})
                    => road_grid[cell] = settings.water_height

C4_HigherClassWins ==
    pc = "roads" =>
        LET t == Touched
        IN  \A cell \in Cells(Shape) :
                (\E i, j \in RoadsAt(t, cell) :
                     RoadCategory(graph[i]) # RoadCategory(graph[j])) =>
                    /\ road_grid[cell] = TopRoadHeight(RoadsAt(t, cell))
                    /\ \E i \in RoadsAt(t, cell) :
                          /\ \A j \in RoadsAt(t, cell) :
                                Priority(RoadCategory(graph[i]))
                                    >= Priority(RoadCategory(graph[j]))
                          /\ road_grid[cell] = RoadHeight(graph[i])

\* C4 witness: the lower-class road is drawn after the higher-class one on a
\* cell both touch, and the cell holds the higher-class height.
C4_Witness ==
    /\ pc = "roads"
    /\ LET t == Touched
       IN  \E cell \in Cells(Shape) :
               \E i, j \in RoadsAt(t, cell) :
                   /\ i < j
                   /\ Priority(RoadCategory(graph[i])) > Priority(RoadCategory(graph[j]))
                   /\ RoadHeight(graph[i]) > RoadHeight(graph[j])
                   /\ road_grid[cell] = RoadHeight(graph[i])

\* C5: a cell touched only by a park holds the configured park height.
C5_ParkOnlyCell ==
    pc = "parks" =>
        LET t == Touched
        IN  \A cell \in Cells(Shape) :
                (cell \in t.park /\ RoadsAt(t, cell) = {} /\ cell \notin t.water)
                    => road_grid[cell] = settings.park_height

----------------------------------------------------------------------------
(* MeshBuilder: heightmap_to_mesh *)

(***************************************************************************)
(* A heightmap is a function on Cells(<<height, width>>) with values in    *)
(* units of 1 / grid_unit (hundredths when the builder is called on its    *)
(* own: 100 is 1.0).  A vertex is <<x, y, z>> with x and y kept as         *)
(* numerators over the denominators width and height (x = col * width_mm / *)
(* width, y = row * height_mm / height) and z scaled by grid_unit          *)
(* (z = grid_unit * base_thickness +- value * max_relief).                 *)
(* Vertex indices are the 0-based indices of the code; index v is          *)
(* vertices[v + 1].  After merge_vertices two vertices are the same vertex *)
(* exactly when their coordinates are equal, so the faces of the merged    *)
(* mesh are kept as triples of points.                                     *)
(***************************************************************************)

\* height, width = heightmap.shape
MapHeight(h) == Cardinality({cell[1] : cell \in DOMAIN h})

MapWidth(h) == Cardinality({cell[2] : cell \in DOMAIN h})

RECURSIVE Flatten(_)
Flatten(ss) == IF ss = <<>> THEN <<>> ELSE Head(ss) \o Flatten(Tail(ss))

\* mutation of TopZ: the relief is measured from z = 0 instead of the base
TopZFromZero(v, s) ==
    IF s.invert
    THEN 0 - v * s.max_relief_height
    ELSE v * s.max_relief_height

\* mutation of TopZ: the invert setting is ignored
TopZNoInvert(v, s) ==
    grid_unit * s.base_thickness + v * s.max_relief_height

\* z of the top vertex of a cell holding value v (v / grid_unit in the code's
\* units), scaled by grid_unit
TopZ(v, s) ==
    IF s.invert
    THEN grid_unit * s.base_thickness - v * s.max_relief_height
    ELSE grid_unit * s.base_thickness + v * s.max_relief_height

\* the vertex loop: row-major list of top vertices
TopVertices(h, s) ==
    LET W == MapWidth(h)
    IN  [n \in 1..(MapHeight(h) * W) |->
            LET row == (n - 1) \div W
                col == (n - 1) % W
            IN  <<col * s.width_mm, row * s.height_mm, TopZ(h[<<row, col>>], s)>>]

\* mutation of CellFaces: only the first triangle of a quad is emitted
CellFacesSingle(row, col, W) ==
    << <<row * W + col, (row + 1) * W + col, row * W + (col + 1)>> >>

\* the two faces appended for the quad at (row, col)
CellFaces(row, col, W) ==
    LET v0 == row * W + col
        v1 == row * W + (col + 1)
        v2 == (row + 1) * W + col
        v3 == (row + 1) * W + (col + 1)
    IN  << <<v0, v2, v1>>, <<v1, v2, v3>> >>

\* the face loop over range(height - 1) x range(width - 1)
TopFaces(H, W) ==
    Flatten([r \in 1..(H - 1) |-> Flatten([c \in 1..(W - 1) |-> CellFaces(r - 1, c - 1, W)])])

\* base_vertices[:, 2] = 0
BaseVertex(v) == <<v[1], v[2], 0>>

\* faces[:, [0, 2, 1]]
BaseFaces(fs) == [i \in 1..Len(fs) |-> <<fs[i][1], fs[i][3], fs[i][2]>>]

\* the two face windings used for the wall quads
WindingA == << <<0, 2, 1>>, <<1, 2, 3>> >>

WindingB == << <<0, 1, 2>>, <<1, 3, 2>> >>

\* one wall quad: vertices [top v0, top v1, base v0, base v1] and its two faces
WallQuad(verts, v0_idx, v1_idx, winding) ==
    LET wall_verts == <<verts[v0_idx + 1], verts[v1_idx + 1],
                        BaseVertex(verts[v0_idx + 1]), BaseVertex(verts[v1_idx + 1])>>
    IN  [k \in 1..2 |-> <<wall_verts[winding[k][1] + 1],
                          wall_verts[winding[k][2] + 1],
                          wall_verts[winding[k][3] + 1]>>]

\* front wall (row = 0)
FrontWall(verts, H, W) ==
    Flatten([c \in 1..(W - 1) |-> WallQuad(verts, c - 1, c, WindingA)])

\* back wall (row = height - 1)
BackWall(verts, H, W) ==
    Flatten([c \in 1..(W - 1) |->
                WallQuad(verts, (H - 1) * W + (c - 1), (H - 1) * W + c, WindingB)])

\* left wall (col = 0)
LeftWall(verts, H, W) ==
    Flatten([r \in 1..(H - 1) |-> WallQuad(verts, (r - 1) * W, r * W, WindingB)])

\* mutation of RightWall: the strip is built on column 0 again
RightWallAtLeft(verts, H, W) ==
    Flatten([r \in 1..(H - 1) |-> WallQuad(verts, (r - 1) * W, r * W, WindingA)])

\* right wall (col = width - 1)
RightWall(verts, H, W) ==
    Flatten([r \in 1..(H - 1) |->
                WallQuad(verts, (r - 1) * W + (W - 1), r * W + (W - 1), WindingA)])

\* faces of an indexed mesh as triples of points
FacePoints(verts, fs) ==
    [i \in 1..Len(fs) |-> <<verts[fs[i][1] + 1], verts[fs[i][2] + 1], verts[fs[i][3] + 1]>>]

BaseVertices(verts) == [i \in 1..Len(verts) |-> BaseVertex(verts[i])]

\* trimesh.util.concatenate([top_mesh, base_mesh] + side_meshes), merge_vertices
ConcatenateMeshes(verts, fs, bfs, sides) ==
    FacePoints(verts, fs) \o FacePoints(BaseVertices(verts), bfs) \o sides

\* heightmaps handed to the mesh builder: flat at 0, flat at 1.0, and a single
\* raised cell (0.5 or 1.0) anywhere
HeightmapsOf(shape) ==
    {[cell \in Cells(shape) |-> v] : v \in {0, 100}}
    \cup {[cell \in Cells(shape) |-> IF cell = peak THEN v ELSE 0] :
             peak \in Cells(shape), v \in {50, 100}}

HeightmapChoices ==
    UNION {HeightmapsOf(<<H, W>>) : H \in 2..MaxMeshDim, W \in 2..MaxMeshDim}

\* settings of the mesh runs: the default plate, relief off / default / as
\* thick as the base, both invert settings
MeshSettingsChoices ==
    {[DefaultSettings EXCEPT !.max_relief_height = m, !.invert = inv] :
        m \in {0, 25, 30}, inv \in BOOLEAN}

InitMesh ==
    /\ pc = "mesh_start"
    /\ settings \in MeshSettingsChoices
    /\ heightmap \in HeightmapChoices
    /\ graph = <<>>
    /\ water = NoneGdf
    /\ parks = NoneGdf
    /\ road_grid = NoMesh
    /\ vertices = NoMesh
    /\ faces = NoMesh
    /\ base_faces = NoMesh
    /\ side_faces = NoMesh
    /\ final_mesh = NoMesh
    /\ RunIdle
    /\ GridIdle
    /\ CallIdle

\* the vertex loop
BuildVertices ==
    /\ pc = "mesh_start"
    /\ vertices' = TopVertices(heightmap, settings)
    /\ pc' = "vertices"
    /\ UNCHANGED <<settings, graph, water, parks, road_grid, heightmap,
                   faces, base_faces, side_faces, final_mesh,
                   runVars, gridVars, callVars>>

\* the face loop and top_mesh
BuildTop ==
    /\ pc = "vertices"
    /\ faces' = TopFaces(MapHeight(heightmap), MapWidth(heightmap))
    /\ pc' = "top"
    /\ UNCHANGED <<settings, graph, water, parks, road_grid, heightmap,
                   vertices, base_faces, side_faces, final_mesh,
                   runVars, gridVars, callVars>>

\* base_vertices, base_faces and base_mesh
BuildBase ==
    /\ pc = "top"
    /\ base_faces' = BaseFaces(faces)
    /\ pc' = "base"
    /\ UNCHANGED <<settings, graph, water, parks, road_grid, heightmap,
                   vertices, faces, side_faces, final_mesh,
                   runVars, gridVars, callVars>>

\* the four wall strips, in the order the code appends them
BuildWalls ==
    /\ pc = "base"
    /\ LET H == MapHeight(heightmap)
           W == MapWidth(heightmap)
       IN  side_faces' = FrontWall(vertices, H, W) \o BackWall(vertices, H, W)
                           \o LeftWall(vertices, H, W) \o RightWall(vertices, H, W)
    /\ pc' = "walls"
    /\ UNCHANGED <<settings, graph, water, parks, road_grid, heightmap,
                   vertices, faces, base_faces, final_mesh,
                   runVars, gridVars, callVars>>

\* concatenate, merge_vertices, process
Assemble ==
    /\ pc = "walls"
    /\ final_mesh' = ConcatenateMeshes(vertices, faces, base_faces, side_faces)
    /\ pc' = "mesh"
    /\ UNCHANGED <<settings, graph, water, parks, road_grid, heightmap,
                   vertices, faces, base_faces, side_faces,
                   runVars, gridVars, callVars>>

NextMesh == BuildVertices \/ BuildTop \/ BuildBase \/ BuildWalls \/ Assemble

SpecMesh == InitMesh /\ [][NextMesh]_vars

----------------------------------------------------------------------------
(* Geometry of a mesh given as a sequence of point triples *)

\* z component of the right-hand-rule normal (p1 - p0) x (p2 - p0) of a face;
\* the scaling of x and y is positive, so the sign is the true one
NormalZ(f) ==
    (f[2][1] - f[1][1]) * (f[3][2] - f[1][2]) - (f[2][2] - f[1][2]) * (f[3][1] - f[1][1])

\* the three undirected edges of a face
FaceEdges(f) == << {f[1], f[2]}, {f[2], f[3]}, {f[3], f[1]} >>

MeshEdges(mesh) == Flatten([i \in 1..Len(mesh) |-> FaceEdges(mesh[i])])

\* mesh.is_watertight: every undirected edge belongs to exactly two faces
IsWatertight(mesh) ==
    LET es == MeshEdges(mesh)
    IN  \A n \in 1..Len(es) : Cardinality({m \in 1..Len(es) : es[m] = es[n]}) = 2

MeshPoints(mesh) == UNION {{mesh[i][1], mesh[i][2], mesh[i][3]} : i \in 1..Len(mesh)}

SetMin(S) == CHOOSE x \in S : \A y \in S : x <= y

\* <<min, max>> of coordinate k over the mesh
Extent(mesh, k) ==
    LET vals == {p[k] : p \in MeshPoints(mesh)}
    IN  <<SetMin(vals), SetMax(vals)>>

AllTopAboveBase == \A i \in 1..Len(vertices) : vertices[i][3] > 0

----------------------------------------------------------------------------
(* Claims about the mesh builder *)

\* C6: for a heightmap of at least 2 x 2 cells whose top vertices all have
\* z > 0, every undirected edge of the merged mesh is shared by exactly two
\* triangles.
C6_ClosedShell ==
    (pc = "mesh" /\ AllTopAboveBase) => IsWatertight(final_mesh)

\* C6 witness: a finished 3 x 3 mesh with a raised cell and all top vertices
\* above the base.
C6_Witness ==
    /\ pc = "mesh"
    /\ AllTopAboveBase
    /\ MapHeight(heightmap) >= 3 /\ MapWidth(heightmap) >= 3
    /\ \E cell \in DOMAIN heightmap : heightmap[cell] > 0
    /\ settings.max_relief_height > 0

\* C7: an all-zero heightmap with max_relief_height = 0 gives a flat box over
\* the full plate, x in [0, width_mm], y in [0, height_mm], z in
\* [0, base_thickness], of volume width_mm * height_mm * base_thickness, and
\* watertight.  (x and y are numerators over width and height, z is scaled by
\* 100.)
C7_FlatBoxFullPlate ==
    (/\ pc = "mesh"
     /\ settings.max_relief_height = 0
     /\ \A cell \in DOMAIN heightmap : heightmap[cell] = 0) =>
        LET W  == MapWidth(heightmap)
            H  == MapHeight(heightmap)
            ex == Extent(final_mesh, 1)
            ey == Extent(final_mesh, 2)
            ez == Extent(final_mesh, 3)
        IN  /\ ex = <<0, W * settings.width_mm>>
            /\ ey = <<0, H * settings.height_mm>>
            /\ ez = <<0, 100 * settings.base_thickness>>
            /\ (ex[2] - ex[1]) * (ey[2] - ey[1]) * (ez[2] - ez[1])
                  = (W * settings.width_mm) * (H * settings.height_mm)
                      * (100 * settings.base_thickness)
            /\ IsWatertight(final_mesh)

\* C8: an R x C heightmap yields 2(R-1)(C-1) top triangles, 2(R-1)(C-1) base
\* triangles and 4(R-1) + 4(C-1) wall triangles.
C8_TriangleCounts ==
    pc = "mesh" =>
        LET R == MapHeight(heightmap)
            C == MapWidth(heightmap)
        IN  /\ Len(faces) = 2 * (R - 1) * (C - 1)
            /\ Len(base_faces) = 2 * (R - 1) * (C - 1)
            /\ Len(side_faces) = 4 * (R - 1) + 4 * (C - 1)
            /\ Len(final_mesh) = 4 * (R - 1) * (C - 1) + 4 * (R - 1) + 4 * (C - 1)

\* C8 witness: a finished mesh of a non-square heightmap with 3 rows.
C8_Witness ==
    /\ pc = "mesh"
    /\ MapHeight(heightmap) = 3 /\ MapWidth(heightmap) = 2
    /\ Len(faces) = 4 /\ Len(side_faces) = 12

\* C9: every top-surface triangle has a right-hand-rule normal with positive z.
C9_TopNormalsUp ==
    pc = "mesh" =>
        LET top == FacePoints(vertices, faces)
        IN  \A i \in 1..Len(top) : NormalZ(top[i]) > 0

\* C10: every base triangle lies on the top's vertex grid at z = 0, reverses the
\* winding of its top triangle, and has a normal with negative z.
C10_BaseNormalsDown ==
    pc = "mesh" =>
        LET base == FacePoints(BaseVertices(vertices), base_faces)
        IN  /\ Len(base_faces) = Len(faces)
            /\ \A i \in 1..Len(base) :
                  /\ \A k \in 1..3 : base[i][k][3] = 0
                  /\ base_faces[i] = <<faces[i][1], faces[i][3], faces[i][2]>>
                  /\ NormalZ(base[i]) < 0

\* C11: for every cell of the heightmap the top vertex z is
\* baseThickness - value * maxRelief when invert is set and
\* baseThickness + value * maxRelief when it is not, so the z of the same cell
\* under the two settings sum to 2 * baseThickness.
C11_InvertMirrorsRelief ==
    pc \in {"vertices", "top", "base", "walls", "mesh"} =>
        LET W     == MapWidth(heightmap)
            other == TopVertices(heightmap, [settings EXCEPT !.invert = ~settings.invert])
        IN  \A n \in 1..Len(vertices) :
                LET value == heightmap[<<(n - 1) \div W, (n - 1) % W>>]
                    base  == grid_unit * settings.base_thickness
                IN  /\ settings.invert =>
                          vertices[n][3] = base - value * settings.max_relief_height
                    /\ ~settings.invert =>
                          vertices[n][3] = base + value * settings.max_relief_height
                    /\ vertices[n][3] + other[n][3] = 2 * base

\* C11 witness: an inverted run whose raised cell lies below the plate's top
\* while the other cells stay at the base thickness.
C11_Witness ==
    /\ pc = "vertices"
    /\ settings.invert
    /\ \E n, m \in 1..Len(vertices) :
           /\ vertices[n][3] < grid_unit * settings.base_thickness
           /\ vertices[m][3] = grid_unit * settings.base_thickness

----------------------------------------------------------------------------
(* GridGeometry on its own: calls of _grid_dimensions and world_to_grid *)

\* largest resolution tried besides the default one
MaxResolution == 8
\* largest number of points handed to world_to_grid
MaxPoints == 2

\* STLSettings.resolution as constructed
DefaultResolution == 800

\* plates <<width_mm, height_mm>>: portrait default, landscape, square
PlateChoices == {<<1500, 2000>>, <<2000, 1000>>, <<1000, 1000>>, <<2000, 1500>>}

GridSettingsChoices ==
    {[DefaultSettings EXCEPT !.resolution = r, !.width_mm = pl[1], !.height_mm = pl[2]] :
        r \in (1..MaxResolution) \cup {DefaultResolution}, pl \in PlateChoices}

\* world points: the corners of the box, inner points, and points outside the
\* box on each side
PointChoices ==
    {<<0, 0>>, <<4, 8>>, <<2, 3>>, <<1, 6>>, <<3, 3>>, <<-2, 4>>, <<6, 10>>, <<1, -3>>}

PointsChoices == UNION {[1..n -> PointChoices] : n \in 0..MaxPoints}

InitGrid ==
    /\ pc = "grid_start"
    /\ settings \in GridSettingsChoices
    /\ points \in PointsChoices
    /\ grid_shape = NoMesh
    /\ pixels = <<>>
    /\ graph = <<>>
    /\ water = NoneGdf
    /\ parks = NoneGdf
    /\ road_grid = NoMesh
    /\ heightmap = NoMesh
    /\ vertices = NoMesh
    /\ faces = NoMesh
    /\ base_faces = NoMesh
    /\ side_faces = NoMesh
    /\ final_mesh = NoMesh
    /\ RunIdle
    /\ CallIdle

\* grid_height, grid_width = _grid_dimensions(settings)
CallGridDimensions ==
    /\ pc = "grid_start"
    /\ grid_shape' = GridDimensions(settings)
    /\ pc' = "grid_dims"
    /\ UNCHANGED <<settings, graph, water, parks, road_grid, heightmap,
                   vertices, faces, base_faces, side_faces, final_mesh,
                   runVars, points, pixels, callVars>>

\* rows, cols = world_to_grid(coords, bounds, (grid_height, grid_width))
CallWorldToGrid ==
    /\ pc = "grid_dims"
    /\ pixels' = world_to_grid(points, Bounds, grid_shape)
    /\ pc' = "grid_pixels"
    /\ UNCHANGED <<settings, graph, water, parks, road_grid, heightmap,
                   vertices, faces, base_faces, side_faces, final_mesh,
                   runVars, points, grid_shape, callVars>>

NextGrid == CallGridDimensions \/ CallWorldToGrid

SpecGrid == InitGrid /\ [][NextGrid]_vars

\* k is an integer nearest to n / d (d > 0), whatever the rule for ties
IsNearestInt(k, n, d) == 2 * Abs(k * d - n) <= d

\* C12: with A = width_mm / height_mm, if A >= 1 then cols = R and
\* rows = round(R / A), otherwise rows = R and cols = round(R * A); R = 800 on
\* the 150 x 200 plate gives 800 rows and 600 columns.
C12_GridSizingRounds ==
    pc \in {"grid_dims", "grid_pixels"} =>
        LET R == settings.resolution
            w == settings.width_mm
            h == settings.height_mm
        IN  /\ w >= h => (grid_shape[2] = R /\ IsNearestInt(grid_shape[1], R * h, w))
            /\ w < h  => (grid_shape[1] = R /\ IsNearestInt(grid_shape[2], R * w, h))
            /\ (R = DefaultResolution /\ w = 1500 /\ h = 2000)
                  => grid_shape = <<800, 600>>

\* C13: world_to_grid returns one pixel per input point, each with its row in
\* [0, rows - 1] and its column in [0, cols - 1]; a point outside the box is
\* clamped to the border on the side it left the box.
C13_WorldToGridClamps ==
    (pc = "grid_pixels" /\ grid_shape[1] >= 1 /\ grid_shape[2] >= 1) =>
        /\ Len(pixels) = Len(points)
        /\ \A i \in 1..Len(points) :
              /\ pixels[i][1] \in 0..(grid_shape[1] - 1)
              /\ pixels[i][2] \in 0..(grid_shape[2] - 1)
              /\ points[i][1] < Bounds.minx => pixels[i][2] = 0
              /\ points[i][1] > Bounds.maxx => pixels[i][2] = grid_shape[2] - 1
              /\ points[i][2] > Bounds.maxy => pixels[i][1] = 0
              /\ points[i][2] < Bounds.miny => pixels[i][1] = grid_shape[1] - 1

\* C13 witness: two points, one beyond the north-east corner and one inside
\* the box, both mapped, the outer one onto the corner cell of a grid with
\* several rows and columns.
C13_Witness ==
    /\ pc = "grid_pixels"
    /\ grid_shape[1] >= 3 /\ grid_shape[2] >= 3
    /\ Len(points) = 2 /\ Len(pixels) = 2
    /\ points[1] = <<6, 10>> /\ pixels[1] = <<0, grid_shape[2] - 1>>
    /\ points[2] = <<2, 3>>
    /\ pixels[2][1] \in 1..(grid_shape[1] - 2)

----------------------------------------------------------------------------
(* generate_stl: smoothing and normalization *)

(***************************************************************************)
(* From here on a cell of road_grid holds the numerator of its value over  *)
(* the denominator grid_unit, so that the blur and the division by the     *)
(* maximum are exact.  gaussian_filter correlates each axis with a kernel   *)
(* of radius int(4 * sigma + 0.5), boundary mode 'reflect'.  The kernel's  *)
(* true weights exp(-k^2 / (2 sigma^2)) / sum are irrational; the model    *)
(* keeps their support, symmetry, positivity and unit sum and takes the    *)
(* dyadic weights 2^(radius - |k|) over their sum.                         *)
(***************************************************************************)

\* int(truncate * sd + 0.5) with truncate = 4.0; sigma in tenths
KernelRadius(sigma) == (4 * sigma + 5) \div 10

KernelWeight(k, radius) == 2 ^ (radius - Abs(k))

KernelSum(radius) ==
    SeqSum([j \in 1..(2 * radius + 1) |-> KernelWeight(j - radius - 1, radius)])

\* index i of an axis of length n extended by mode 'reflect' (d c b a | a b c d | d c b a)
Reflect(i, n) ==
    LET m == i % (2 * n)
    IN  IF m < n THEN m ELSE 2 * n - 1 - m

\* correlate1d along one axis, in numerators over KernelSum(radius)
Correlate1d(grid, shape, axis, radius) ==
    [cell \in DOMAIN grid |->
        SeqSum([j \in 1..(2 * radius + 1) |->
            LET k   == j - radius - 1
                src == IF axis = 0
                       THEN <<Reflect(cell[1] + k, shape[1]), cell[2]>>
                       ELSE <<cell[1], Reflect(cell[2] + k, shape[2])>>
            IN  KernelWeight(k, radius) * grid[src]])]

\* gaussian_filter(road_grid, sigma): axis 0, then axis 1
GaussianFilter(grid, unit, shape, sigma) ==
    LET radius == KernelRadius(sigma)
        rows   == Correlate1d(grid, shape, 0, radius)
    IN  [grid |-> Correlate1d(rows, shape, 1, radius),
         unit |-> unit * KernelSum(radius) * KernelSum(radius)]

\* road_grid.max()
GridMax(grid) == SetMax({grid[cell] : cell \in DOMAIN grid})

\* mutation of Normalize: the grid is divided by the sum of its cells
NormalizeBySum(grid, unit) ==
    LET total == SeqSum([i \in 1..Cardinality(DOMAIN grid) |->
                            LET W == MapWidth(grid)
                            IN  grid[<<(i - 1) \div W, (i - 1) % W>>]])
    IN  IF GridMax(grid) > 0 THEN [grid |-> grid, unit |-> total]
        ELSE [grid |-> grid, unit |-> unit]

\* mutation of Normalize: a small constant is added to the divisor
NormalizeEpsilon(grid, unit) ==
    [grid |-> grid, unit |-> GridMax(grid) + 1]

\* mutation of Normalize: the division is not guarded by max > 0
NormalizeUnguarded(grid, unit) ==
    [grid |-> grid, unit |-> GridMax(grid)]

\* if road_grid.max() > 0: road_grid = road_grid / road_grid.max()
\* (n / unit divided by max / unit is n / max)
Normalize(grid, unit) ==
    IF GridMax(grid) > 0
    THEN [grid |-> grid, unit |-> GridMax(grid)]
    ELSE [grid |-> grid, unit |-> unit]

----------------------------------------------------------------------------
(* generate_stl: the whole run *)

\* resolution setting of the full runs
RunResolution == 4

\* mutation of StageAfter: the grid is normalized before it is smoothed
StageAfterNormalizeFirst(stage) ==
    CASE stage = "start" -> "roads"
      [] stage = "roads" -> "water"
      [] stage = "water" -> "parks"
      [] stage = "parks" -> "normalized"
      [] stage = "normalized" -> "smoothed"
      [] stage = "smoothed" -> "mesh"
      [] stage = "mesh" -> "exported"
      [] OTHER -> "done"

\* the statement sequence of generate_stl: the stage that follows a stage
StageAfter(stage) ==
    CASE stage = "start" -> "roads"
      [] stage = "roads" -> "water"
      [] stage = "water" -> "parks"
      [] stage = "parks" -> "smoothed"
      [] stage = "smoothed" -> "normalized"
      [] stage = "normalized" -> "mesh"
      [] stage = "mesh" -> "exported"
      [] OTHER -> "done"

\* the resolution above which the grid is taken to exceed the practical bound
PracticalResolution == RunResolution

Oversize == settings.resolution > PracticalResolution

MotorwayEdge ==
    [has_highway |-> TRUE, highway |-> PlainTag("motorway"), coords |-> DiagonalCoords]

TrackEdge ==
    [has_highway |-> TRUE, highway |-> PlainTag("track"), coords |-> DiagonalCoords]

\* road networks of the runs: none, one motorway (height 1.0), one track (0.4)
RunGraphChoices == {<<>>, <<MotorwayEdge>>, <<TrackEdge>>}

\* None, a frame without rows, a frame with polygons
RunWaterChoices ==
    {NoneGdf, GdfOf(<<>>), GdfOf(<< [geom_type |-> "Polygon", polys |-> <<PondRing>>] >>)}

RunParksChoices ==
    {NoneGdf, GdfOf(<<>>),
     GdfOf(<< [geom_type |-> "MultiPolygon", polys |-> <<PondRing, FieldRing>>] >>)}

\* smoothing off or on (sigma 0.3), relief below or equal to the base
\* thickness, both invert settings, a resolution within and beyond the bound,
\* the default water and park heights or a raised water with a sunken park
RunSettingsChoices ==
    {[DefaultSettings EXCEPT !.resolution = r, !.smoothing = sg, !.road_width_scale = 5,
                             !.invert = rl[1], !.max_relief_height = rl[2],
                             !.water_height = wp[1], !.park_height = wp[2]] :
        r \in {RunResolution, RunResolution + 1}, sg \in {0, 3},
        rl \in {<<FALSE, 25>>, <<TRUE, 25>>, <<TRUE, 30>>},
        wp \in {<<-20, 15>>, <<60, -10>>}}

InitRun ==
    /\ pc = "start"
    /\ settings \in RunSettingsChoices
    /\ graph \in RunGraphChoices
    /\ water \in RunWaterChoices
    /\ parks \in RunParksChoices
    /\ road_grid = ZeroGrid(GridDimensions(settings))
    /\ heightmap = NoMesh
    /\ vertices = NoMesh
    /\ faces = NoMesh
    /\ base_faces = NoMesh
    /\ side_faces = NoMesh
    /\ final_mesh = NoMesh
    /\ RunIdle
    /\ GridIdle
    /\ CallIdle

\* np.zeros((grid_height, grid_width)) cannot be satisfied: MemoryError
AllocationFails ==
    /\ pc = "start"
    /\ Oversize
    /\ pc' = "failed"
    /\ result' = "MemoryError"
    /\ UNCHANGED <<settings, graph, water, parks, road_grid, heightmap,
                   vertices, faces, base_faces, side_faces, final_mesh,
                   grid_unit, output_file, diagnostics, gridVars, callVars>>

\* [4/5] gaussian_filter, skipped when settings.smoothing is not positive
Smoothing ==
    /\ StageAfter(pc) = "smoothed"
    /\ LET smoothed == GaussianFilter(road_grid, grid_unit, Shape, settings.smoothing)
       IN  IF settings.smoothing > 0
           THEN road_grid' = smoothed.grid /\ grid_unit' = smoothed.unit
           ELSE UNCHANGED <<road_grid, grid_unit>>
    /\ pc' = "smoothed"
    /\ UNCHANGED <<settings, graph, water, parks, heightmap,
                   vertices, faces, base_faces, side_faces, final_mesh,
                   output_file, diagnostics, result, gridVars, callVars>>

\* the division by the maximum
Normalization ==
    /\ StageAfter(pc) = "normalized"
    /\ LET normalized == Normalize(road_grid, grid_unit)
       IN  road_grid' = normalized.grid /\ grid_unit' = normalized.unit
    /\ pc' = "normalized"
    /\ UNCHANGED <<settings, graph, water, parks, heightmap,
                   vertices, faces, base_faces, side_faces, final_mesh,
                   output_file, diagnostics, result, gridVars, callVars>>

\* [5/5] mesh = heightmap_to_mesh(road_grid, settings): the call
CallMeshBuilder ==
    /\ pc \in {"parks", "smoothed", "normalized"}
    /\ StageAfter(pc) = "mesh"
    /\ heightmap' = road_grid
    /\ pc' = "mesh_start"
    /\ UNCHANGED <<settings, graph, water, parks, road_grid,
                   vertices, faces, base_faces, side_faces, final_mesh,
                   runVars, gridVars, callVars>>

\* what mesh.export(output_file) can leave at the output path: the whole
\* file, nothing (the file could not be opened), or the part written before
\* the write failed; generate_stl neither catches the error nor removes the file
ExportOutcomes == {"complete", "absent", "partial"}

\* mesh.export(output_file)
Export ==
    /\ pc = "mesh"
    /\ StageAfter(pc) = "exported"
    /\ \E written \in ExportOutcomes :
          /\ output_file' = written
          /\ IF written = "complete"
             THEN pc' = "exported" /\ UNCHANGED result
             ELSE pc' = "failed" /\ result' = "OSError"
    /\ UNCHANGED <<settings, graph, water, parks, road_grid, heightmap,
                   vertices, faces, base_faces, side_faces, final_mesh,
                   grid_unit, diagnostics, gridVars, callVars>>

\* mutation of MeshDiagnostics: the warning is never logged
MeshDiagnosticsNoWarning(mesh) ==
    [faces |-> Len(mesh), is_watertight |-> IsWatertight(mesh), warning |-> FALSE]

\* the figures logged after the export, and the warning of a leaking mesh
MeshDiagnostics(mesh) ==
    LET tight == IsWatertight(mesh)
    IN  [faces |-> Len(mesh), is_watertight |-> tight, warning |-> ~tight]

\* the log lines after the export, and return output_file
LogDiagnostics ==
    /\ pc = "exported"
    /\ diagnostics' = MeshDiagnostics(final_mesh)
    /\ result' = "returned"
    /\ pc' = StageAfter(pc)
    /\ UNCHANGED <<settings, graph, water, parks, road_grid, heightmap,
                   vertices, faces, base_faces, side_faces, final_mesh,
                   grid_unit, output_file, gridVars, callVars>>

NextRun ==
    \/ AllocationFails
    \/ RoadsPass
    \/ WaterPass
    \/ ParksPass
    \/ Smoothing
    \/ Normalization
    \/ CallMeshBuilder
    \/ BuildVertices
    \/ BuildTop
    \/ BuildBase
    \/ BuildWalls
    \/ Assemble
    \/ Export
    \/ LogDiagnostics

SpecRun == InitRun /\ [][NextRun]_vars

----------------------------------------------------------------------------
(* Claims about the later stages of generate_stl *)

\* C14: when the composited (and, with sigma > 0, smoothed) grid has a maximum
\* greater than 0, the maximum of the normalized grid is exactly 1 (a single
\* motorway with sigma = 0 included); when the maximum is 0 the normalization
\* leaves the grid unchanged.
C14_NormalizedMaxIsOne ==
    [][pc' = "normalized" =>
          IF GridMax(road_grid) > 0
          THEN GridMax(road_grid') = grid_unit'
          ELSE road_grid' = road_grid /\ grid_unit' = grid_unit]_vars

\* C14 witness: a smoothed track (height 0.4 before the blur) normalized to a
\* grid with maximum 1 and cells strictly between 0 and 1.
C14_Witness ==
    /\ pc = "normalized"
    /\ settings.smoothing > 0
    /\ graph = <<TrackEdge>>
    /\ GridMax(road_grid) = grid_unit
    /\ \E cell \in DOMAIN road_grid : road_grid[cell] > 0 /\ road_grid[cell] < grid_unit

\* C15: the normalization step applied to a grid whose maximum is already 1
\* leaves every cell unchanged.
C15_NormalizeIdempotent ==
    GridMax(road_grid) = grid_unit =>
        LET again == Normalize(road_grid, grid_unit)
        IN  \A cell \in DOMAIN road_grid :
                again.grid[cell] * grid_unit = road_grid[cell] * again.unit

\* C15 witness: a grid that the normalization has just divided by a maximum
\* other than 1, with maximum 1 now, which a second normalization returns as
\* it is.
C15_Witness ==
    /\ pc = "normalized"
    /\ settings.smoothing = 0
    /\ grid_unit # 100
    /\ GridMax(road_grid) = grid_unit
    /\ Normalize(road_grid, grid_unit) = [grid |-> road_grid, unit |-> grid_unit]

\* C16: with an empty road network and no or empty water and park frames the
\* heightmap is zero in every cell at every stage, the division of the
\* normalization is not performed, the mesh is a flat plate at the base
\* thickness, and the run raises no error before the export.
C16_EmptyInputFlatPlate ==
    (graph = <<>> /\ GdfEmpty(water) /\ GdfEmpty(parks) /\ ~Oversize) =>
        /\ \A cell \in DOMAIN road_grid : road_grid[cell] = 0
        /\ grid_unit > 0
        /\ \A cell \in DOMAIN heightmap : heightmap[cell] = 0
        /\ \A n \in 1..Len(vertices) :
              vertices[n][3] = grid_unit * settings.base_thickness
        /\ pc = "failed" => (final_mesh # NoMesh /\ result = "OSError")
        /\ pc = "done" => (result = "returned" /\ output_file = "complete")

\* C16 witness: a finished run on no roads, an empty water frame and no park
\* frame, with smoothing on.
C16_Witness ==
    /\ pc = "done"
    /\ graph = <<>> /\ water = GdfOf(<<>>) /\ parks = NoneGdf
    /\ settings.smoothing > 0
    /\ output_file = "complete"
    /\ Len(final_mesh) > 0

\* C17: when writing the mesh file fails, no file, not even a partial one,
\* exists at the output path afterwards.
C17_ExportAllOrNothing ==
    result = "OSError" => output_file = "absent"

\* C18: a resolution beyond the practical bound is rejected with a fatal
\* error before any grid is allocated: no rasterization pass starts.
C18_OversizeRejected ==
    Oversize => (pc = "start" \/ (pc = "failed" /\ result = "MemoryError"))

\* C19: a mesh that is not watertight does not abort the run: after the mesh
\* is built only the export can fail; a finished run has written the file,
\* returned, left the mesh as assembled, logged the watertightness flag and
\* warned exactly when the flag is false.
C19_LeakyMeshStillExported ==
    /\ (pc = "failed" /\ final_mesh # NoMesh) => result = "OSError"
    /\ pc \in {"exported", "done"} =>
          /\ output_file = "complete"
          /\ final_mesh = ConcatenateMeshes(vertices, faces, base_faces, side_faces)
    /\ pc = "done" =>
          /\ result = "returned"
          /\ diagnostics.is_watertight = IsWatertight(final_mesh)
          /\ diagnostics.warning = ~IsWatertight(final_mesh)

\* C19 witness: a finished run whose mesh is not watertight, with the file
\* written and the warning logged.
C19_Witness ==
    /\ pc = "done"
    /\ ~IsWatertight(final_mesh)
    /\ diagnostics.warning
    /\ output_file = "complete"
    /\ result = "returned"

\* C20: the stages run in the order roads, water, parks, smoothing,
\* normalization, mesh build, export, one after the other; the grid is
\* smoothed only in the step after the parks merge (and not at all for
\* sigma = 0), normalized only in the step after that, and never changes
\* afterwards.
C20_StageOrder ==
    [][LET Rank(p) ==
               CASE p = "start" -> 0
                 [] p = "roads" -> 1
                 [] p = "water" -> 2
                 [] p = "parks" -> 3
                 [] p = "smoothed" -> 4
                 [] p = "normalized" -> 5
                 [] p = "mesh_start" -> 6
                 [] p = "vertices" -> 7
                 [] p = "top" -> 8
                 [] p = "base" -> 9
                 [] p = "walls" -> 10
                 [] p = "mesh" -> 11
                 [] p = "exported" -> 12
                 [] p = "done" -> 13
                 [] OTHER -> 14
       IN  /\ pc' # pc => (pc' = "failed" \/ Rank(pc') = Rank(pc) + 1)
           /\ (road_grid' # road_grid \/ grid_unit' # grid_unit) => Rank(pc') <= 5
           /\ (pc' = "smoothed" /\ settings.smoothing = 0) =>
                 (road_grid' = road_grid /\ grid_unit' = grid_unit)
           /\ grid_unit' # grid_unit =>
                 \/ pc = "parks" /\ pc' = "smoothed" /\ settings.smoothing > 0
                 \/ pc = "smoothed" /\ pc' = "normalized"]_vars

\* C20 witness: a finished run that rasterized a road and water, smoothed,
\* normalized, built the mesh and wrote the file.
C20_Witness ==
    /\ pc = "done"
    /\ graph # <<>> /\ ~GdfEmpty(water)
    /\ settings.smoothing > 0
    /\ grid_unit = GridMax(road_grid)
    /\ heightmap = road_grid
    /\ output_file = "complete"

----------------------------------------------------------------------------
(* LineRasterizer on its own: one call of draw_thick_line, iteration by    *)
(* iteration                                                               *)

\* number of rows of the grid of these calls (it has one column less)
LineGridSize == 3

LineShape == <<LineGridSize, LineGridSize - 1>>

\* mutation of Neighbourhood: the bounds test is left out and indices wrap
NeighbourhoodWrapped(shape, x, y, half_thick) ==
    {<<(y + i) % shape[1], (x + j) % shape[2]>> :
        i \in (-half_thick)..half_thick, j \in (-half_thick)..half_thick}

\* mutation of Neighbourhood: the corners of the square are not painted
NeighbourhoodDiamond(shape, x, y, half_thick) ==
    {c \in Cells(shape) : Abs(c[1] - y) + Abs(c[2] - x) <= half_thick}

\* the two for-loops around pixel (x, y): the cells <<y_pos, x_pos>> that pass
\* the bounds test
Neighbourhood(shape, x, y, half_thick) ==
    {c \in {<<y + i, x + j>> :
               i \in (-half_thick)..half_thick, j \in (-half_thick)..half_thick} :
        /\ 0 <= c[1] /\ c[1] < shape[1]
        /\ 0 <= c[2] /\ c[2] < shape[2]}

\* the locals set before the loop
LineLocals(l) ==
    [x0 |-> l.x0, y0 |-> l.y0,
     dx |-> Abs(l.x1 - l.x0), dy |-> Abs(l.y1 - l.y0),
     sx |-> IF l.x0 < l.x1 THEN 1 ELSE -1,
     sy |-> IF l.y0 < l.y1 THEN 1 ELSE -1,
     err |-> Abs(l.x1 - l.x0) - Abs(l.y1 - l.y0)]

\* mutation of BresenhamAdvance: the error term is not updated
BresenhamAdvanceStaleErr(c) ==
    LET e2 == 2 * c.err
    IN  [c EXCEPT !.x0 = IF e2 > -c.dy THEN c.x0 + c.sx ELSE c.x0,
                  !.y0 = IF e2 < c.dx THEN c.y0 + c.sy ELSE c.y0]

\* the end of an iteration that did not break: e2, the two tests, the updates
BresenhamAdvance(c) ==
    LET e2    == 2 * c.err
        stepX == e2 > -c.dy
        stepY == e2 < c.dx
        err1  == IF stepX THEN c.err - c.dy ELSE c.err
    IN  [c EXCEPT !.x0  = IF stepX THEN c.x0 + c.sx ELSE c.x0,
                  !.y0  = IF stepY THEN c.y0 + c.sy ELSE c.y0,
                  !.err = IF stepY THEN err1 + c.dx ELSE err1]

\* a grid that already holds 0.7 on every other cell
PatchGrid(shape) == [cell \in Cells(shape) |-> IF (cell[1] + cell[2]) % 2 = 0 THEN 70 ELSE 0]

\* endpoints in the grid and one pixel outside it on every side, a value
\* below and one above what the grid holds, a negative value, thickness 1 and 2
LineChoices ==
    [grid : {ZeroGrid(LineShape), PatchGrid(LineShape)},
     x0 : (-1)..LineShape[2], y0 : (-1)..LineShape[1],
     x1 : (-1)..LineShape[2], y1 : (-1)..LineShape[1],
     value : {40, 100, -20}, thickness : {1, 2}]

\* more iterations than any line of LineChoices needs
LineStepCap == 2 * (LineGridSize + 2)

InitLine ==
    /\ pc = "line_call"
    /\ line \in LineChoices
    /\ road_grid = line.grid
    /\ cursor = NoMesh
    /\ stepped = <<>>
    /\ tag_value = NoMesh
    /\ category = ""
    /\ settings = DefaultSettings
    /\ graph = <<>>
    /\ water = NoneGdf
    /\ parks = NoneGdf
    /\ heightmap = NoMesh
    /\ vertices = NoMesh
    /\ faces = NoMesh
    /\ base_faces = NoMesh
    /\ side_faces = NoMesh
    /\ final_mesh = NoMesh
    /\ RunIdle
    /\ GridIdle

\* dx, dy, sx, sy, err, half_thick
LineEnter ==
    /\ pc = "line_call"
    /\ cursor' = LineLocals(line)
    /\ pc' = "line_loop"
    /\ UNCHANGED <<settings, graph, water, parks, road_grid, heightmap,
                   vertices, faces, base_faces, side_faces, final_mesh,
                   runVars, gridVars, line, stepped, tag_value, category>>

\* one iteration of while True: paint around (x0, y0), then break or advance
LineIterate ==
    /\ pc = "line_loop"
    /\ Len(stepped) < LineStepCap
    /\ LET painted == Neighbourhood(LineShape, cursor.x0, cursor.y0, line.thickness \div 2)
       IN  road_grid' = [cell \in DOMAIN road_grid |->
                            IF cell \in painted
                            THEN PaintCell(road_grid[cell], line.value)
                            ELSE road_grid[cell]]
    /\ stepped' = Append(stepped, <<cursor.x0, cursor.y0>>)
    /\ IF cursor.x0 = line.x1 /\ cursor.y0 = line.y1
       THEN pc' = "line_done" /\ UNCHANGED cursor
       ELSE pc' = "line_loop" /\ cursor' = BresenhamAdvance(cursor)
    /\ UNCHANGED <<settings, graph, water, parks, heightmap,
                   vertices, faces, base_faces, side_faces, final_mesh,
                   runVars, gridVars, line, tag_value, category>>

NextLine == LineEnter \/ LineIterate

SpecLine == InitLine /\ [][NextLine]_vars

\* the loop is the only thing that runs: an enabled iteration is taken
SpecLineFair == SpecLine /\ WF_vars(NextLine)

\* cell <<row, col>> lies within Chebyshev distance d of pixel <<x, y>>
NearPixel(cell, pixel, d) ==
    Abs(cell[1] - pixel[2]) <= d /\ Abs(cell[2] - pixel[1]) <= d

\* C21: after the call every in-grid cell within Chebyshev distance
\* floor(thickness / 2) of a stepped pixel holds max(previous value, paint
\* value), every other cell is unchanged, and at no point of the call is a
\* cell lower than before it.  (The grid is the one draw_thick_line denotes
\* in the passes.)
C21_OnlyMaxCompositing ==
    /\ pc \in {"line_loop", "line_done"} =>
          \A cell \in DOMAIN road_grid : road_grid[cell] >= line.grid[cell]
    /\ pc = "line_done" =>
          /\ \A cell \in DOMAIN road_grid :
                IF \E k \in 1..Len(stepped) :
                       NearPixel(cell, stepped[k], line.thickness \div 2)
                THEN road_grid[cell] = Max(line.grid[cell], line.value)
                ELSE road_grid[cell] = line.grid[cell]
          /\ road_grid = draw_thick_line(line.grid, LineShape, line.x0, line.y0,
                                         line.x1, line.y1, line.value, line.thickness)

\* C21 witness: a finished thick diagonal over the patched grid that raised
\* some cells, left higher cells as they were and did not touch others.
C21_Witness ==
    /\ pc = "line_done"
    /\ line.thickness = 2 /\ line.value = 40
    /\ line.x0 # line.x1 /\ line.y0 # line.y1
    /\ \E a, b, c \in DOMAIN road_grid :
          /\ line.grid[a] = 0 /\ road_grid[a] = 40
          /\ line.grid[b] = 70 /\ road_grid[b] = 70
          /\ NearPixel(b, stepped[1], 1)
          /\ line.grid[c] = 0 /\ road_grid[c] = 0

\* C22: the loop terminates; the first stepped pixel is (x0, y0), the last is
\* (x1, y1), every step moves by at most one cell along each axis, and there
\* are max(|dx|, |dy|) steps in total.
C22_BresenhamTerminates ==
    /\ [](/\ stepped # <<>> => stepped[1] = <<line.x0, line.y0>>
          /\ \A k \in 1..(Len(stepped) - 1) :
                /\ Abs(stepped[k + 1][1] - stepped[k][1]) <= 1
                /\ Abs(stepped[k + 1][2] - stepped[k][2]) <= 1
                /\ stepped[k + 1] # stepped[k]
          /\ pc = "line_done" =>
                /\ stepped[Len(stepped)] = <<line.x1, line.y1>>
                /\ Len(stepped) - 1 = Max(Abs(line.x1 - line.x0), Abs(line.y1 - line.y0)))
    /\ <>(pc = "line_done")

\* C22 witness: a finished line from outside the grid to outside the grid
\* that is neither axis-parallel nor diagonal, steeper than wide.
C22_Witness ==
    /\ pc = "line_done"
    /\ line.x0 = -1 /\ line.x1 = 1
    /\ line.y0 = LineShape[1] /\ line.y1 = -1
    /\ Len(stepped) = LineShape[1] + 2

\* C23: a segment whose endpoints are equal paints the in-grid part of the
\* neighbourhood of its pixel in one iteration and ends; the neighbourhood
\* cells outside the grid change no cell of the grid.
C23_ZeroLengthSegment ==
    (pc = "line_done" /\ line.x0 = line.x1 /\ line.y0 = line.y1) =>
        /\ stepped = << <<line.x0, line.y0>> >>
        /\ \A cell \in DOMAIN road_grid :
              IF NearPixel(cell, <<line.x0, line.y0>>, line.thickness \div 2)
              THEN road_grid[cell] = Max(line.grid[cell], line.value)
              ELSE road_grid[cell] = line.grid[cell]

\* C23 witness: a thick point one pixel outside the north-west corner, which
\* paints the corner cell alone.
C23_Witness ==
    /\ pc = "line_done"
    /\ line.x0 = -1 /\ line.y0 = -1 /\ line.x1 = -1 /\ line.y1 = -1
    /\ line.thickness = 2 /\ line.value = 100
    /\ Len(stepped) = 1
    /\ road_grid[<<0, 0>>] = 100
    /\ \A cell \in DOMAIN road_grid : cell # <<0, 0>> => road_grid[cell] = line.grid[cell]

----------------------------------------------------------------------------
(* Claims about the polygon pass grids *)

\* every ring of the frame has its centre cell in the grid, holding the height
CentresHold(gdf, height_value) ==
    LET grid == rasterize_polygons(gdf, Bounds, settings, height_value)
    IN  \A ring \in GdfRings(gdf) :
            LET centre == RingCentre(world_to_grid(ring, Bounds, Shape))
            IN  centre \in Cells(Shape) /\ grid[centre] = height_value

\* C24: in the grid rasterize_polygons returns, the cell at the truncated
\* mean of a ring's pixel rows and columns lies in the grid and holds exactly
\* the feature's height, for every ring with at least 3 points.
C24_CentroidStamped ==
    /\ pc = "water" => CentresHold(water, settings.water_height)
    /\ pc = "parks" => CentresHold(parks, settings.park_height)

\* C24 witness: a water pass with a negative height over two rings, whose
\* centre cells hold the negative height in the pass grid while the merged
\* grid holds nothing negative there.
C24_Witness ==
    /\ pc = "water"
    /\ settings.water_height < 0
    /\ Cardinality(GdfRings(water)) = 2
    /\ LET grid == rasterize_polygons(water, Bounds, settings, settings.water_height)
       IN  \A ring \in GdfRings(water) :
               LET centre == RingCentre(world_to_grid(ring, Bounds, Shape))
               IN  grid[centre] = settings.water_height /\ road_grid[centre] >= 0

----------------------------------------------------------------------------
(* Claims about the axes of world_to_grid *)

InBox(pt) ==
    /\ Bounds.minx <= pt[1] /\ pt[1] <= Bounds.maxx
    /\ Bounds.miny <= pt[2] /\ pt[2] <= Bounds.maxy

\* C25: for two points inside the box a larger world Y never gives a larger
\* row and a larger world X never gives a smaller column; Y = maxy maps to
\* row 0 and Y = miny to row rows - 1.
C25_RowAxisInverted ==
    (pc = "grid_pixels" /\ grid_shape[1] >= 1 /\ grid_shape[2] >= 1) =>
        \A i, j \in 1..Len(points) :
            (InBox(points[i]) /\ InBox(points[j])) =>
                /\ points[i][2] > points[j][2] => pixels[i][1] <= pixels[j][1]
                /\ points[i][1] > points[j][1] => pixels[i][2] >= pixels[j][2]
                /\ points[i][2] = Bounds.maxy => pixels[i][1] = 0
                /\ points[i][2] = Bounds.miny => pixels[i][1] = grid_shape[1] - 1

\* C25 witness: two inner points mapped to different rows and columns, the
\* northern one to the smaller row, the eastern one to the larger column.
C25_Witness ==
    /\ pc = "grid_pixels"
    /\ Len(points) = 2
    /\ points[1] = <<1, 6>> /\ points[2] = <<3, 3>>
    /\ pixels[1][1] < pixels[2][1]
    /\ pixels[1][2] < pixels[2][2]
    /\ pixels[1][1] > 0

----------------------------------------------------------------------------
(* road_categories.classify on its own *)

\* longest list-valued highway tag
MaxTagList == 2

\* the 13 tags of _HIGHWAY_CATEGORIES and two tags outside it
TagChoices ==
    {"motorway", "motorway_link", "trunk", "trunk_link", "primary", "primary_link",
     "secondary", "secondary_link", "tertiary", "tertiary_link",
     "residential", "living_street", "unclassified", "track", ""}

\* a plain string, or a list (possibly empty) of strings
TagValueChoices ==
    {[list |-> FALSE, vals |-> <<tg>>] : tg \in TagChoices}
    \cup {[list |-> TRUE, vals |-> ts] :
             ts \in UNION {[1..n -> TagChoices] : n \in 0..MaxTagList}}

InitClassify ==
    /\ pc = "classify_call"
    /\ tag_value \in TagValueChoices
    /\ category = ""
    /\ line = NoMesh
    /\ cursor = NoMesh
    /\ stepped = <<>>
    /\ settings = DefaultSettings
    /\ graph = <<>>
    /\ water = NoneGdf
    /\ parks = NoneGdf
    /\ road_grid = NoMesh
    /\ heightmap = NoMesh
    /\ vertices = NoMesh
    /\ faces = NoMesh
    /\ base_faces = NoMesh
    /\ side_faces = NoMesh
    /\ final_mesh = NoMesh
    /\ RunIdle
    /\ GridIdle

\* category = classify(highway_type)
CallClassify ==
    /\ pc = "classify_call"
    /\ category' = classify(tag_value)
    /\ pc' = "classify_done"
    /\ UNCHANGED <<settings, graph, water, parks, road_grid, heightmap,
                   vertices, faces, base_faces, side_faces, final_mesh,
                   runVars, gridVars, line, cursor, stepped, tag_value>>

NextClassify == CallClassify

SpecClassify == InitClassify /\ [][NextClassify]_vars

\* C26: each of the 13 known tags maps to its category, any other tag maps to
\* 'default', a list is classified by its first element, an empty list as
\* residential; every value is classified.
C26_ClassifyTotal ==
    pc = "classify_done" =>
        LET table == [motorway |-> "motorway", motorway_link |-> "motorway",
                      trunk |-> "primary", trunk_link |-> "primary",
                      primary |-> "primary", primary_link |-> "primary",
                      secondary |-> "secondary", secondary_link |-> "secondary",
                      tertiary |-> "tertiary", tertiary_link |-> "tertiary",
                      residential |-> "residential", living_street |-> "residential",
                      unclassified |-> "residential"]
            OfTag(tg) == IF tg \in DOMAIN table THEN table[tg] ELSE "default"
        IN  /\ category \in {"motorway", "primary", "secondary", "tertiary",
                             "residential", "default"}
            /\ ~tag_value.list => category = OfTag(tag_value.vals[1])
            /\ (tag_value.list /\ tag_value.vals # <<>>) =>
                  category = OfTag(tag_value.vals[1])
            /\ (tag_value.list /\ tag_value.vals = <<>>) => category = "residential"

\* C26 witness: a list whose first element is a link tag and whose second
\* element belongs to another category, classified by the first.
C26_Witness ==
    /\ pc = "classify_done"
    /\ tag_value = [list |-> TRUE, vals |-> <<"trunk_link", "residential">>]
    /\ category = "primary"

----------------------------------------------------------------------------
(* Sign of the composited and of the normalized grid *)

\* C27: with non-negative road heights every cell of the grid is >= 0 after
\* each of the roads, water and parks passes and after smoothing, whatever
\* the water and park heights are, and from normalization on every cell lies
\* in [0,1].
C27_CompositeNonNegative ==
    (\A k \in DOMAIN settings.road_heights : settings.road_heights[k] >= 0) =>
        /\ pc \in {"roads", "water", "parks", "smoothed"} =>
              \A cell \in DOMAIN road_grid : road_grid[cell] >= 0
        /\ pc \in {"normalized", "mesh_start", "vertices", "top", "base", "walls",
                   "mesh", "exported", "done"} =>
              \A cell \in DOMAIN road_grid :
                  0 <= road_grid[cell] /\ road_grid[cell] <= grid_unit

\* C27 witness: a normalized grid of a run whose parks pass stamped a negative
\* height on a cell that stayed at zero, next to a cell at the maximum.
C27_Witness ==
    /\ pc = "normalized"
    /\ settings.park_height < 0
    /\ ~GdfEmpty(parks)
    /\ \E cell \in DOMAIN road_grid :
          /\ rasterize_polygons(parks, Bounds, settings, settings.park_height)[cell] < 0
          /\ road_grid[cell] = 0
    /\ \E cell \in DOMAIN road_grid : road_grid[cell] = grid_unit

----------------------------------------------------------------------------
(* Winding of the assembled shell *)

\* the three directed edges of a face, in the order of its winding
DirectedEdges(f) == << <<f[1], f[2]>>, <<f[2], f[3]>>, <<f[3], f[1]>> >>

MeshDirectedEdges(mesh) == Flatten([i \in 1..Len(mesh) |-> DirectedEdges(mesh[i])])

\* no directed edge occurs in two triangles
ConsistentWinding(mesh) ==
    LET es == MeshDirectedEdges(mesh)
    IN  \A n, m \in 1..Len(es) : es[m] = es[n] => m = n

\* C28: after merging coincident vertices no directed edge of the assembled
\* mesh occurs in two triangles: every edge shared by two triangles of the
\* shell is traversed in opposite directions by them.
C28_ConsistentWinding ==
    (pc = "mesh" /\ AllTopAboveBase) => ConsistentWinding(final_mesh)

----------------------------------------------------------------------------
(* Order of the draw_thick_line calls of the roads pass *)

\* the draw_thick_line calls one edge makes: endpoints, value and thickness
EdgeSegments(data, b, s) ==
    LET highway == EdgeHighway(data)
        px      == world_to_grid(data.coords, b, GridDimensions(s))
    IN  [i \in 1..(Len(px) - 1) |->
            [from |-> px[i], to |-> px[i + 1],
             value |-> get_stl_height(highway, s.road_heights),
             thickness |-> StlLineWidth(highway, s.road_width_scale)]]

\* all calls of the pass, in the order the code makes them
PassSegments(g, b, s) == Flatten([i \in 1..Len(g) |-> EdgeSegments(g[i], b, s)])

\* the grid after the calls segs[i], segs[i + 1], ...
RECURSIVE DrawSegments(_, _, _, _)
DrawSegments(grid, shape, segs, i) ==
    IF i > Len(segs) THEN grid
    ELSE DrawSegments(
             draw_thick_line(grid, shape, segs[i].from[2], segs[i].from[1],
                             segs[i].to[2], segs[i].to[1],
                             segs[i].value, segs[i].thickness),
             shape, segs, i + 1)

\* a secondary road with a geometry of three points
VeeEdge ==
    [has_highway |-> TRUE, highway |-> PlainTag("secondary"), coords |-> VeeCoords]

\* road networks of up to MaxRoads edges, the polyline among the choices
RoadGraphChoices ==
    UNION {[1..n -> EdgeChoices \cup {VeeEdge}] : n \in 0..MaxRoads}

\* the two road presets on two grid sizes
RoadSettingsChoices ==
    {[DefaultSettings EXCEPT !.resolution = res,
                             !.road_heights = r.road_heights,
                             !.road_width_scale = r.road_width_scale] :
        r \in RoadPresets, res \in {GridResolution - 1, GridResolution}}

\* a call of rasterize_roads with no polygon layers around it
InitRoads ==
    /\ pc = "start"
    /\ settings \in RoadSettingsChoices
    /\ graph \in RoadGraphChoices
    /\ water = NoneGdf
    /\ parks = NoneGdf
    /\ road_grid = ZeroGrid(GridDimensions(settings))
    /\ heightmap = NoMesh
    /\ vertices = NoMesh
    /\ faces = NoMesh
    /\ base_faces = NoMesh
    /\ side_faces = NoMesh
    /\ final_mesh = NoMesh
    /\ RunIdle
    /\ GridIdle
    /\ CallIdle

NextRoads == RoadsPass

SpecRoads == InitRoads /\ [][NextRoads]_vars

\* C29: the grid of the roads pass does not depend on the order of the edges
\* nor on the order of the vertex pairs: drawing the segments of the pass in
\* any order on a zero grid gives the same grid.
C29_RoadsOrderIndependent ==
    pc = "roads" =>
        LET shape == GridDimensions(settings)
            segs  == PassSegments(graph, Bounds, settings)
        IN  \A order \in Permutations(1..Len(segs)) :
                DrawSegments(ZeroGrid(shape), shape,
                             [k \in 1..Len(segs) |-> segs[order[k]]], 1) = road_grid

\* C29 witness: a motorway drawn before a two-segment secondary road that
\* crosses it; a cell both touch keeps the motorway height.
C29_Witness ==
    /\ pc = "roads"
    /\ Len(graph) = 2
    /\ graph[1].highway = PlainTag("motorway")
    /\ graph[2].coords = VeeCoords
    /\ Len(PassSegments(graph, Bounds, settings)) = 3
    /\ \E cell \in DOMAIN road_grid :
          /\ rasterize_roads(<<graph[2]>>, Bounds, settings)[cell]
                = settings.road_heights.secondary
          /\ road_grid[cell] = settings.road_heights.motorway
          /\ settings.road_heights.motorway > settings.road_heights.secondary

----------------------------------------------------------------------------
(* Height of the top surface over the base *)

\* C30: for a heightmap with values in [0,1], without invert every top vertex
\* has z in [baseThickness, baseThickness + maxRelief], with invert in
\* [baseThickness - maxRelief, baseThickness]; when maxRelief < baseThickness
\* every top vertex has z > 0 and differs from its base counterpart.
C30_TopAboveBase ==
    (/\ pc \in {"vertices", "top", "base", "walls", "mesh"}
     /\ \A cell \in DOMAIN heightmap :
           0 <= heightmap[cell] /\ heightmap[cell] <= grid_unit) =>
        LET base   == grid_unit * settings.base_thickness
            relief == grid_unit * settings.max_relief_height
        IN  \A i \in 1..Len(vertices) :
                /\ ~settings.invert =>
                      base <= vertices[i][3] /\ vertices[i][3] <= base + relief
                /\ settings.invert =>
                      base - relief <= vertices[i][3] /\ vertices[i][3] <= base
                /\ settings.max_relief_height < settings.base_thickness =>
                      /\ vertices[i][3] > 0
                      /\ vertices[i] # BaseVertex(vertices[i])

\* C30 witness: an inverted mesh with the default relief whose heightmap
\* holds a cell at 1.0; its vertex sits at baseThickness - maxRelief, above 0.
C30_Witness ==
    /\ pc = "mesh"
    /\ settings.invert
    /\ settings.max_relief_height = 25
    /\ settings.max_relief_height < settings.base_thickness
    /\ \E cell \in DOMAIN heightmap : heightmap[cell] = grid_unit
    /\ \E i \in 1..Len(vertices) :
          /\ vertices[i][3] = grid_unit * (settings.base_thickness - settings.max_relief_height)
          /\ vertices[i][3] > 0

====
